---- MODULE Spec2Model ----
(***************************************************************************)
(* Board Games API: the five request handlers of routers/v1/boardgames.py, *)
(* the pydantic schemas that gate them, the boardgames table they write    *)
(* and the session each request runs in.                                   *)
(*                                                                         *)
(* A request advances one await at a time (each query, commit and refresh  *)
(* is one step), so requests in different slots interleave exactly where   *)
(* the coroutine can be suspended.                                         *)
(*                                                                         *)
(* Values: an Optional value is a sequence of length 0 (None) or 1.        *)
(* rating is counted in tenths (100 is 10.0).  Timestamps are readings of  *)
(* a clock that never runs backwards.                                      *)
(***************************************************************************)
EXTENDS Integers, Sequences, FiniteSets, TLC

\* ------------------------------------------------------------------ bounds
MaxReqs == 2
MaxId == 2
MaxClock == 1
MaxStarts == 2
MaxPage == 2

Slots == 1..MaxReqs
Ids == 1..MaxId
Sessions == 1..MaxStarts

\* ------------------------------------------------------------------ values
Null == << >>
Some(v) == << v >>

Name200 == "nnnnnnnnnnnnnnnnnnnnnnnnnnnnnnnnnnnnnnnnnnnnnnnnnnnnnnnnnnnnnnnnnnnnnnnnnnnnnnnnnnnnnnnnnnnnnnnnnnnnnnnnnnnnnnnnnnnnnnnnnnnnnnnnnnnnnnnnnnnnnnnnnnnnnnnnnnnnnnnnnnnnnnnnnnnnnnnnnnnnnnnnnnnnnnnnnnnnnnnn"
Name201 == "nnnnnnnnnnnnnnnnnnnnnnnnnnnnnnnnnnnnnnnnnnnnnnnnnnnnnnnnnnnnnnnnnnnnnnnnnnnnnnnnnnnnnnnnnnnnnnnnnnnnnnnnnnnnnnnnnnnnnnnnnnnnnnnnnnnnnnnnnnnnnnnnnnnnnnnnnnnnnnnnnnnnnnnnnnnnnnnnnnnnnnnnnnnnnnnnnnnnnnnnn"

SchemaFields ==
  {"name", "description", "min_players", "max_players",
   "min_playtime", "max_playtime", "year_published", "rating"}

NoRow == [id |-> 0]
NoPayload == << >>

\* ----------------------------------------------------------------- schemas
\* kind "str": lo/hi bound the length; kind "num": lo/hi bound the value.
\* BoardGameBase with ge=0 on min_players.
BoardGameBaseMinPlayersZero ==
  [name           |-> [required |-> TRUE,  nullable |-> FALSE, kind |-> "str", lo |-> 1,    hasHi |-> TRUE,  hi |-> 200],
   description    |-> [required |-> FALSE, nullable |-> TRUE,  kind |-> "str", lo |-> 0,    hasHi |-> FALSE, hi |-> 0],
   min_players    |-> [required |-> TRUE,  nullable |-> FALSE, kind |-> "num", lo |-> 0,    hasHi |-> TRUE,  hi |-> 100],
   max_players    |-> [required |-> TRUE,  nullable |-> FALSE, kind |-> "num", lo |-> 1,    hasHi |-> TRUE,  hi |-> 100],
   min_playtime   |-> [required |-> FALSE, nullable |-> TRUE,  kind |-> "num", lo |-> 1,    hasHi |-> FALSE, hi |-> 0],
   max_playtime   |-> [required |-> FALSE, nullable |-> TRUE,  kind |-> "num", lo |-> 1,    hasHi |-> FALSE, hi |-> 0],
   year_published |-> [required |-> FALSE, nullable |-> TRUE,  kind |-> "num", lo |-> 1900, hasHi |-> TRUE,  hi |-> 2100],
   rating         |-> [required |-> FALSE, nullable |-> TRUE,  kind |-> "num", lo |-> 0,    hasHi |-> TRUE,  hi |-> 100]]

BoardGameBase ==
  [name           |-> [required |-> TRUE,  nullable |-> FALSE, kind |-> "str", lo |-> 1,    hasHi |-> TRUE,  hi |-> 200],
   description    |-> [required |-> FALSE, nullable |-> TRUE,  kind |-> "str", lo |-> 0,    hasHi |-> FALSE, hi |-> 0],
   min_players    |-> [required |-> TRUE,  nullable |-> FALSE, kind |-> "num", lo |-> 1,    hasHi |-> TRUE,  hi |-> 100],
   max_players    |-> [required |-> TRUE,  nullable |-> FALSE, kind |-> "num", lo |-> 1,    hasHi |-> TRUE,  hi |-> 100],
   min_playtime   |-> [required |-> FALSE, nullable |-> TRUE,  kind |-> "num", lo |-> 1,    hasHi |-> FALSE, hi |-> 0],
   max_playtime   |-> [required |-> FALSE, nullable |-> TRUE,  kind |-> "num", lo |-> 1,    hasHi |-> FALSE, hi |-> 0],
   year_published |-> [required |-> FALSE, nullable |-> TRUE,  kind |-> "num", lo |-> 1900, hasHi |-> TRUE,  hi |-> 2100],
   rating         |-> [required |-> FALSE, nullable |-> TRUE,  kind |-> "num", lo |-> 0,    hasHi |-> TRUE,  hi |-> 100]]

BoardGameUpdate ==
  [name           |-> [required |-> FALSE, nullable |-> TRUE,  kind |-> "str", lo |-> 1,    hasHi |-> TRUE,  hi |-> 200],
   description    |-> [required |-> FALSE, nullable |-> TRUE,  kind |-> "str", lo |-> 0,    hasHi |-> FALSE, hi |-> 0],
   min_players    |-> [required |-> FALSE, nullable |-> TRUE,  kind |-> "num", lo |-> 1,    hasHi |-> TRUE,  hi |-> 100],
   max_players    |-> [required |-> FALSE, nullable |-> TRUE,  kind |-> "num", lo |-> 1,    hasHi |-> TRUE,  hi |-> 100],
   min_playtime   |-> [required |-> FALSE, nullable |-> TRUE,  kind |-> "num", lo |-> 1,    hasHi |-> FALSE, hi |-> 0],
   max_playtime   |-> [required |-> FALSE, nullable |-> TRUE,  kind |-> "num", lo |-> 1,    hasHi |-> FALSE, hi |-> 0],
   year_published |-> [required |-> FALSE, nullable |-> TRUE,  kind |-> "num", lo |-> 1900, hasHi |-> TRUE,  hi |-> 2100],
   rating         |-> [required |-> FALSE, nullable |-> TRUE,  kind |-> "num", lo |-> 0,    hasHi |-> TRUE,  hi |-> 100]]

\* The length of a string, the value of a number.
Measure(c, x) == IF c.kind = "str" THEN Len(x) ELSE x

\* One Field(...) against the payload p: a missing key needs a default, an
\* explicit null needs Optional[...], a value needs its ge/le or length bounds.
FieldOk(c, p, f) ==
  IF f \notin DOMAIN p THEN ~c.required
  ELSE IF p[f] = Null THEN c.nullable
  ELSE /\ Measure(c, p[f][1]) >= c.lo
       /\ c.hasHi => Measure(c, p[f][1]) <= c.hi

\* Pydantic validation of a request body against a schema (keys the schema
\* does not declare are ignored).
Validates(schema, p) == \A f \in SchemaFields : FieldOk(schema[f], p, f)

\* A dump that loses the description.
ModelDumpNoDescription(p) ==
  [f \in SchemaFields |-> IF f \in DOMAIN p /\ f # "description" THEN p[f] ELSE Null]

\* game_data.model_dump(): every declared field, defaults filled in.
ModelDump(p) ==
  [f \in SchemaFields |-> IF f \in DOMAIN p THEN p[f] ELSE Null]

\* model_dump() without exclude_unset: unset fields come out as None.
ModelDumpAll(p) ==
  [f \in SchemaFields |-> IF f \in DOMAIN p THEN p[f] ELSE Null]

\* A schema that lets undeclared keys through.
ModelDumpKeepExtra(p) == p

\* game_updates.model_dump(exclude_unset=True): only the declared fields
\* the request body carried.
ModelDumpExcludeUnset(p) ==
  [f \in (DOMAIN p) \cap SchemaFields |-> p[f]]

\* ---------------------------------------------------------------- database
RowFields == SchemaFields \cup {"id", "created_at", "updated_at"}

\* Columns declared nullable=False.
NotNullColumns == {"name", "min_players", "max_players"}

\* A table without NOT NULL constraints.
DbAcceptsAnything(vals) == TRUE

\* Whether the table accepts the values vals (field -> Optional value) of an
\* INSERT or of the SET clause of an UPDATE.
DbAccepts(vals) ==
  \A f \in DOMAIN vals : (f \in NotNullColumns) => vals[f] # Null

\* BoardGame(**values) as inserted: id from the serial, both timestamp
\* defaults read from the clock (created_at first).
NewRow(values, id, created, updated) ==
  [f \in RowFields |->
     IF f = "id" THEN id
     ELSE IF f = "created_at" THEN created
     ELSE IF f = "updated_at" THEN updated
     ELSE values[f]]

\* The serial behind the primary key: the value after the one just issued.
NextSerial(n) == n + 1

HasRow(t, id) == \E i \in 1..Len(t) : t[i].id = id

\* A lookup that does not filter on the primary key.
RowOfAny(t, id) == IF t # << >> THEN t[1] ELSE NoRow

\* db.get(BoardGame, id): the row with that primary key, or None.
RowOf(t, id) ==
  IF HasRow(t, id) THEN t[CHOOSE i \in 1..Len(t) : t[i].id = id] ELSE NoRow

\* setattr(game, field, value) for each dumped field, then the flush: the
\* attributes whose value differs from the one the session loaded.
Changed(game, upd) == {f \in DOMAIN upd : upd[f] # game[f]}

\* onupdate set on created_at as well.
OnUpdateBoth(row, t) == [row EXCEPT !["updated_at"] = t, !["created_at"] = t]

\* updated_at declared without onupdate.
OnUpdateNever(row, t) == row

\* onupdate=datetime.utcnow: the column the UPDATE statement refreshes.
OnUpdate(row, t) == [row EXCEPT !["updated_at"] = t]

\* UPDATE boardgames SET <changed>, updated_at = t WHERE id = :id
UpdateRow(row, upd, changed, t) ==
  OnUpdate([f \in RowFields |-> IF f \in changed THEN upd[f] ELSE row[f]], t)

UpdateWhere(t, id, upd, changed, at) ==
  [i \in 1..Len(t) |->
     IF t[i].id = id THEN UpdateRow(t[i], upd, changed, at) ELSE t[i]]

\* A delete that never reaches the table.
DeleteNothing(t, id) == t

\* DELETE FROM boardgames WHERE id = :id
DeleteWhere(t, id) == SelectSeq(t, LAMBDA row : row.id # id)

\* The orders in which a SELECT without ORDER BY may return n rows.
ScanOrders(n) ==
  {p \in [1..n -> 1..n] : \A i, j \in 1..n : p[i] = p[j] => i = j}

\* A page that starts one row late.
PageOffByOne(t, p, skip, limit) ==
  [k \in 1..(IF Len(t) - (skip + 1) < 0 THEN 0
             ELSE IF Len(t) - (skip + 1) < limit THEN Len(t) - (skip + 1)
             ELSE limit) |-> t[p[skip + 1 + k]]]

\* select(BoardGame).offset(skip).limit(limit) over the rows in scan order p.
Page(t, p, skip, limit) ==
  [k \in 1..(IF Len(t) - skip < 0 THEN 0
             ELSE IF Len(t) - skip < limit THEN Len(t) - skip
             ELSE limit) |-> t[p[skip + k]]]

\* select(func.count()).select_from(BoardGame)
Count(t) == Len(t)

\* `if not game:` of the three by-id handlers.
IsAbsent(game) == game = NoRow

\* ------------------------------------------------------------------ inputs
Catan == [name |-> Some("Catan"), min_players |-> Some(3), max_players |-> Some(4)]

Azul ==
  [name |-> Some("Azul"), description |-> Some("tiles"),
   min_players |-> Some(5), max_players |-> Some(2),
   min_playtime |-> Some(30), max_playtime |-> Some(45),
   year_published |-> Some(2017), rating |-> Some(100)]

NoPlayers == [name |-> Some("Catan"), min_players |-> Some(0), max_players |-> Some(4)]

CreatePayloads == {Catan, Azul, NoPlayers}

UpdNothing == NoPayload
UpdMaxPlayers == [max_players |-> Some(6)]
UpdPlayers == [name |-> Some("Catan"), min_players |-> Some(1), max_players |-> Some(4)]
UpdClear == [description |-> Null, rating |-> Null, id |-> 2]
UpdNoName == [name |-> Null]
UpdBadRating == [rating |-> Some(101)]

UpdatePayloads ==
  {UpdNothing, UpdMaxPlayers, UpdPlayers, UpdClear, UpdNoName, UpdBadRating}

\* ------------------------------------------------------------------- state
VARIABLES
  table,    \* the boardgames table: a sequence of rows
  nextId,   \* the next value of the primary key's serial
  now,      \* the clock datetime.utcnow reads
  reqs,     \* per slot: the request in flight and its session
  started,  \* requests started so far
  origin,   \* per identifier: never issued, fresh (with the Create payload),
            \* touched by a later write, or deleted
  ended,    \* per session: the session as its request left it
  vp,       \* the request body under validation
  vres,     \* the outcome of validating vp
  settings, \* DatabaseSettings as loaded from the environment
  pool,     \* the engine's connection pool
  conns     \* per slot: its session's standing with the pool

vars == << table, nextId, now, reqs, started, origin, ended, vp, vres, settings, pool, conns >>
svars == << table, nextId, now, reqs, started, origin, ended >>
vvars == << vp, vres >>
pvars == << settings, pool, conns >>

\* -------------------------------------------------------------------- pool
\* DatabaseSettings defaults.
DefaultPoolSize == 5
DefaultMaxOverflow == 10
DefaultPoolTimeout == 30

DefaultSettings ==
  [pool_size |-> DefaultPoolSize, max_overflow |-> DefaultMaxOverflow,
   pool_timeout |-> DefaultPoolTimeout]

\* The seconds a QueuePool waits for a connection when create_engine is
\* given no pool_timeout.
QueuePoolTimeout == 30

\* create_async_engine(url, echo, pool_size=settings.pool_size,
\* max_overflow=settings.max_overflow, pool_pre_ping=True): the pool as
\* configured, with no connection opened yet.
CreateEngine(s) ==
  [size |-> s.pool_size, max_overflow |-> s.max_overflow,
   timeout |-> QueuePoolTimeout, opened |-> 0]

\* A session's standing with the pool: it holds no connection, holds one,
\* has waited `waited` seconds for one, or has given up (TimeoutError).
NoConn == [state |-> "none", waited |-> 0]

\* A session: which AsyncSession object it is (0: none), whether it is open,
\* whether it holds a connection of the pool, and how often close() ran.
NoSession == [id |-> 0, state |-> "none", conn |-> FALSE, closes |-> 0]

\* async_session_maker(): a new AsyncSession each call, the n+1st of the
\* process; it takes no connection until its first statement.
NewSession(n) == [id |-> n + 1, state |-> "open", conn |-> FALSE, closes |-> 0]

\* A close that leaves the connection checked out.
SessionCloseKeepsConn(s) == [s EXCEPT !.state = "closed", !.closes = @ + 1]

\* AsyncSession.close(): the connection, if any, goes back to the pool and
\* the session is closed; on a closed session there is nothing to release.
SessionClose(s) == [s EXCEPT !.state = "closed", !.conn = FALSE, !.closes = @ + 1]

Idle ==
  [op |-> "none", id |-> 0, payload |-> NoPayload, skip |-> 0, limit |-> 0,
   pc |-> "idle", obj |-> NoRow, status |-> 0, items |-> << >>, total |-> 0,
   queries |-> 0, commits |-> 0, stale |-> FALSE, session |-> NoSession]

NeverIssued == [state |-> "never", payload |-> NoPayload]

\* The table outlives the process (init_db creates it only if absent): at
\* startup it is empty, or holds what an earlier Create(Catan) left.
Stored == NewRow(ModelDump(Catan), 1, 0, 0)

Init ==
  /\ table \in {<< >>, << Stored >>}
  /\ nextId = Len(table) + 1
  /\ now = 0
  /\ reqs = [r \in Slots |-> Idle]
  /\ started = 0
  /\ origin = [i \in Ids |->
                 IF i <= Len(table) THEN [state |-> "fresh", payload |-> Catan]
                 ELSE NeverIssued]
  /\ ended = [i \in Sessions |-> NoSession]
  /\ vp = NoPayload
  /\ vres = "none"
  /\ settings = DefaultSettings
  /\ pool = CreateEngine(settings)
  /\ conns = [r \in Slots |-> NoConn]

\* ----------------------------------------------------------------- helpers
\* A new request takes the lowest free slot (slots are interchangeable).
CanStart(r) ==
  /\ reqs[r].pc = "idle"
  /\ \A q \in Slots : q < r => reqs[q].pc # "idle"
  /\ started < MaxStarts

\* get_db: the request that starts now opens its session.
Begun == [Idle EXCEPT !.session = NewSession(started)]

\* The readings datetime.utcnow may return next.
Readings(from) == from..MaxClock

\* A committed write is seen by every List between its two queries.
Written(rs) ==
  [q \in Slots |->
     IF rs[q].op = "list" /\ rs[q].pc = "count"
     THEN [rs[q] EXCEPT !.stale = TRUE] ELSE rs[q]]

\* Validation run inside the handler, after its lookup.
RejectedAfterLookup(op, id, p) ==
  [Begun EXCEPT !.op = op, !.id = id, !.payload = p, !.pc = "close", !.status = 422,
               !.queries = 1]

\* The request body did not pass its schema: 422 before the handler runs.
Rejected(op, id, p) ==
  [Begun EXCEPT !.op = op, !.id = id, !.payload = p, !.pc = "close", !.status = 422]

\* ---------------------------------------------------------------- handlers
\* Each request gets a session (get_db), its body is validated, and the
\* handler runs to its first await that reaches the database in one step:
\* nothing before that point is visible to another request.

\* POST /games, create_game: BoardGame(**game_data.model_dump()),
\* db.add(db_game), await db.commit().
CreateGame(r, p) ==
  /\ CanStart(r)
  /\ nextId <= MaxId
  /\ started' = started + 1
  /\ IF ~Validates(BoardGameBase, p)
     THEN /\ reqs' = [reqs EXCEPT ![r] = Rejected("create", 0, p)]
          /\ UNCHANGED << table, nextId, now, origin >>
     ELSE LET values == ModelDump(p)
              req == [Begun EXCEPT !.op = "create", !.payload = p, !.commits = 1]
          IN
          IF DbAccepts(values)
          THEN \E c \in Readings(now) : \E u \in Readings(c) :
                 LET row == NewRow(values, nextId, c, u) IN
                 /\ table' = Append(table, row)
                 /\ nextId' = NextSerial(nextId)
                 /\ now' = u
                 /\ origin' = [origin EXCEPT ![nextId] =
                                 [state |-> "fresh", payload |-> p]]
                 /\ reqs' = Written([reqs EXCEPT ![r] =
                                 [req EXCEPT !.id = row.id, !.obj = row, !.pc = "refresh"]])
          ELSE /\ reqs' = [reqs EXCEPT ![r] = [req EXCEPT !.pc = "close", !.status = 500,
                                                           !.session.conn = TRUE]]
               /\ UNCHANGED << table, nextId, now, origin >>
  /\ UNCHANGED << ended, vvars, pvars >>

\* A refresh followed by a second commit.
RefreshAndCommit(r) ==
  /\ reqs[r].op \in {"create", "update"} /\ reqs[r].pc = "refresh"
  /\ LET game == RowOf(table, reqs[r].id) IN
     reqs' = [reqs EXCEPT
       ![r].pc = "close",
       ![r].queries = @ + 1,
       ![r].commits = @ + 1,
       ![r].session.conn = FALSE,
       ![r].obj = game,
       ![r].status = IF IsAbsent(game) THEN 500
                     ELSE IF reqs[r].op = "create" THEN 201 ELSE 200]
  /\ UNCHANGED << table, nextId, now, started, origin, ended, vvars, pvars >>

\* await db.refresh(game), then the handler returns the object.
Refresh(r) ==
  /\ reqs[r].op \in {"create", "update"} /\ reqs[r].pc = "refresh"
  /\ LET game == RowOf(table, reqs[r].id) IN
     reqs' = [reqs EXCEPT
       ![r].pc = "close",
       ![r].queries = @ + 1,
       ![r].session.conn = TRUE,
       ![r].obj = game,
       ![r].status = IF IsAbsent(game) THEN 500
                     ELSE IF reqs[r].op = "create" THEN 201 ELSE 200]
  /\ UNCHANGED << table, nextId, now, started, origin, ended, vvars, pvars >>

\* GET /games/{id}, get_game: game = await db.get(BoardGame, game_id);
\* if not game: raise 404; return game.
GetGame(r, id) ==
  /\ CanStart(r)
  /\ started' = started + 1
  /\ LET game == RowOf(table, id) IN
     reqs' = [reqs EXCEPT ![r] =
       [Begun EXCEPT !.op = "get", !.id = id, !.pc = "close", !.queries = 1,
                    !.obj = game, !.session.conn = TRUE,
                    !.status = IF IsAbsent(game) THEN 404 ELSE 200]]
  /\ UNCHANGED << table, nextId, now, origin, ended, vvars, pvars >>

\* An update_game that takes the raw body, looks the game up and only then
\* validates.
UpdateGameLookupFirst(r, id, p) ==
  /\ CanStart(r)
  /\ started' = started + 1
  /\ LET game == RowOf(table, id) IN
     reqs' = [reqs EXCEPT ![r] =
       IF ~IsAbsent(game) /\ ~Validates(BoardGameUpdate, p)
       THEN [Begun EXCEPT !.op = "update", !.id = id, !.payload = p, !.queries = 1,
                          !.session.conn = TRUE, !.pc = "close", !.status = 422]
       ELSE [Begun EXCEPT !.op = "update", !.id = id, !.payload = p,
                          !.queries = 1, !.obj = game, !.session.conn = TRUE,
                          !.pc = IF IsAbsent(game) THEN "close" ELSE "commit",
                          !.status = IF IsAbsent(game) THEN 404 ELSE 0]]
  /\ UNCHANGED << table, nextId, now, origin, ended, vvars, pvars >>

\* PATCH /games/{id}, update_game up to `await db.commit()`: the body is
\* validated against BoardGameUpdate before the handler runs; then
\* db.get, the 404 check, and setattr per dumped field (no I/O).
UpdateGame(r, id, p) ==
  /\ CanStart(r)
  /\ started' = started + 1
  /\ LET game == RowOf(table, id) IN
     reqs' = [reqs EXCEPT ![r] =
       IF ~Validates(BoardGameUpdate, p) THEN Rejected("update", id, p)
       ELSE [Begun EXCEPT !.op = "update", !.id = id, !.payload = p,
                         !.queries = 1, !.obj = game, !.session.conn = TRUE,
                         !.pc = IF IsAbsent(game) THEN "close" ELSE "commit",
                         !.status = IF IsAbsent(game) THEN 404 ELSE 0]]
  /\ UNCHANGED << table, nextId, now, origin, ended, vvars, pvars >>

\* A commit that writes the loaded object back when its row is gone.
UpdateCommitUpsert(r) ==
  /\ reqs[r].op = "update" /\ reqs[r].pc = "commit"
  /\ LET upd == ModelDumpExcludeUnset(reqs[r].payload)
         changed == Changed(reqs[r].obj, upd)
         set == [f \in changed |-> upd[f]]
     IN
     IF changed = {}
     THEN /\ reqs' = [reqs EXCEPT ![r].pc = "refresh", ![r].commits = @ + 1,
                                  ![r].session.conn = FALSE]
          /\ UNCHANGED << table, now, origin >>
     ELSE IF DbAccepts(set)
     THEN \E t \in Readings(now) :
          /\ table' = IF HasRow(table, reqs[r].id)
                      THEN UpdateWhere(table, reqs[r].id, upd, changed, t)
                      ELSE Append(table, UpdateRow(reqs[r].obj, upd, changed, t))
          /\ now' = t
          /\ origin' = origin
          /\ reqs' = Written([reqs EXCEPT ![r].pc = "refresh", ![r].commits = @ + 1,
                                           ![r].session.conn = FALSE])
     ELSE /\ reqs' = [reqs EXCEPT ![r].pc = "close", ![r].status = 500,
                                  ![r].commits = @ + 1]
          /\ UNCHANGED << table, now, origin >>
  /\ UNCHANGED << nextId, started, ended, vvars, pvars >>

\* update_game: await db.commit().  The flush writes only attributes whose
\* value differs from the loaded one; with none, no UPDATE is sent.  An
\* UPDATE that matches no row, or that the table rejects, fails the request.
UpdateCommit(r) ==
  /\ reqs[r].op = "update" /\ reqs[r].pc = "commit"
  /\ LET upd == ModelDumpExcludeUnset(reqs[r].payload)
         changed == Changed(reqs[r].obj, upd)
         set == [f \in changed |-> upd[f]]
     IN
     IF changed = {}
     THEN /\ reqs' = [reqs EXCEPT ![r].pc = "refresh", ![r].commits = @ + 1,
                                  ![r].session.conn = FALSE]
          /\ UNCHANGED << table, now, origin >>
     ELSE IF HasRow(table, reqs[r].id) /\ DbAccepts(set)
     THEN \E t \in Readings(now) :
          /\ table' = UpdateWhere(table, reqs[r].id, upd, changed, t)
          /\ now' = t
          /\ origin' = [origin EXCEPT ![reqs[r].id].state = "touched"]
          /\ reqs' = Written([reqs EXCEPT ![r].pc = "refresh", ![r].commits = @ + 1,
                                           ![r].session.conn = FALSE])
     ELSE /\ reqs' = [reqs EXCEPT ![r].pc = "close", ![r].status = 500,
                                  ![r].commits = @ + 1]
          /\ UNCHANGED << table, now, origin >>
  /\ UNCHANGED << nextId, started, ended, vvars, pvars >>

\* DELETE /games/{id}, delete_game up to `await db.commit()`: db.get, the
\* 404 check, db.delete(game) (no I/O).
DeleteGame(r, id) ==
  /\ CanStart(r)
  /\ started' = started + 1
  /\ LET game == RowOf(table, id) IN
     reqs' = [reqs EXCEPT ![r] =
       [Begun EXCEPT !.op = "delete", !.id = id, !.queries = 1, !.obj = game,
                     !.session.conn = TRUE,
                    !.pc = IF IsAbsent(game) THEN "close" ELSE "commit",
                    !.status = IF IsAbsent(game) THEN 404 ELSE 0]]
  /\ UNCHANGED << table, nextId, now, origin, ended, vvars, pvars >>

\* delete_game: await db.commit(); 204.  A DELETE that matches no row any
\* more is only warned about.
DeleteCommit(r) ==
  /\ reqs[r].op = "delete" /\ reqs[r].pc = "commit"
  /\ table' = DeleteWhere(table, reqs[r].id)
  /\ origin' = [origin EXCEPT ![reqs[r].id].state = "deleted"]
  /\ LET rs == [reqs EXCEPT ![r].pc = "close", ![r].status = 204,
                             ![r].commits = @ + 1, ![r].session.conn = FALSE]
     IN reqs' = IF HasRow(table, reqs[r].id) THEN Written(rs) ELSE rs
  /\ UNCHANGED << nextId, now, started, ended, vvars, pvars >>

\* GET /games?skip&limit, get_games: the page query.
GetGames(r, skip, limit) ==
  /\ CanStart(r)
  /\ started' = started + 1
  /\ \E p \in ScanOrders(Len(table)) :
       reqs' = [reqs EXCEPT ![r] =
         [Begun EXCEPT !.op = "list", !.skip = skip, !.limit = limit,
                      !.pc = "count", !.queries = 1, !.session.conn = TRUE,
                      !.items = Page(table, p, skip, limit)]]
  /\ UNCHANGED << table, nextId, now, origin, ended, vvars, pvars >>

\* A total taken from the page the first query returned.
ListCountPage(r) ==
  /\ reqs[r].op = "list" /\ reqs[r].pc = "count"
  /\ reqs' = [reqs EXCEPT
       ![r].pc = "close",
       ![r].queries = @ + 1,
       ![r].total = Len(reqs[r].items),
       ![r].status = 200]
  /\ UNCHANGED << table, nextId, now, started, origin, ended, vvars, pvars >>

\* get_games: the count query, then the response.
ListCount(r) ==
  /\ reqs[r].op = "list" /\ reqs[r].pc = "count"
  /\ reqs' = [reqs EXCEPT
       ![r].pc = "close",
       ![r].queries = @ + 1,
       ![r].total = Count(table),
       ![r].status = 200]
  /\ UNCHANGED << table, nextId, now, started, origin, ended, vvars, pvars >>

\* get_db, once the handler is left by return, HTTPException, a failed
\* commit or refresh, or a 422: `finally: await session.close()`, and then
\* the exit of `async with async_session_maker() as session`, which closes
\* the session once more.  The request is over and the slot is free again.
Close(r) ==
  /\ reqs[r].pc = "close"
  /\ LET finally == SessionClose(reqs[r].session)
         aexit == SessionClose(finally)
     IN ended' = [ended EXCEPT ![reqs[r].session.id] = aexit]
  /\ reqs' = [reqs EXCEPT ![r] = Idle]
  /\ UNCHANGED << table, nextId, now, started, origin, vvars, pvars >>

\* The inputs of the next request.  An identifier beyond the first one the
\* serial has not issued yet, or a skip beyond the end of the table, behaves
\* as that first one does.
TargetIds == {id \in Ids : id <= nextId}
Skips == {k \in 0..MaxPage : k <= Len(table)}
Limits == 1..MaxPage

Next ==
  \/ \E r \in Slots, p \in CreatePayloads : CreateGame(r, p)
  \/ \E r \in Slots, id \in TargetIds : GetGame(r, id)
  \/ \E r \in Slots, id \in TargetIds, p \in UpdatePayloads : UpdateGame(r, id, p)
  \/ \E r \in Slots, id \in TargetIds : DeleteGame(r, id)
  \/ \E r \in Slots, skip \in Skips, limit \in Limits : GetGames(r, skip, limit)
  \/ \E r \in Slots : Refresh(r)
  \/ \E r \in Slots : UpdateCommit(r)
  \/ \E r \in Slots : DeleteCommit(r)
  \/ \E r \in Slots : ListCount(r)
  \/ \E r \in Slots : Close(r)

Spec == Init /\ [][Next]_vars

\* -------------------------------------------------------------- validation
\* The Create schema alone, over request bodies built from the values on and
\* next to every bound of BoardGameBase.  A 2-tuple stands for a key the
\* body does not carry.
AbsentStr == << "", "" >>
AbsentNum == << 0, 0 >>

BoundaryChoices ==
  [name           : {AbsentStr, Null, Some(""), Some("C"), Some(Name200), Some(Name201)},
   description    : {AbsentStr, Some("")},
   min_players    : {AbsentNum, Null, Some(0), Some(1), Some(100), Some(101)},
   max_players    : {AbsentNum, Null, Some(0), Some(1), Some(100), Some(101)},
   min_playtime   : {AbsentNum, Some(0), Some(1)},
   max_playtime   : {AbsentNum, Some(0), Some(1)},
   year_published : {AbsentNum, Some(1899), Some(1900), Some(2100), Some(2101)},
   rating         : {AbsentNum, Some(-1), Some(0), Some(100), Some(101)}]

Body(c) == [f \in {g \in SchemaFields : Len(c[g]) < 2} |-> c[f]]

InitV ==
  /\ table = << >>
  /\ nextId = 1
  /\ now = 0
  /\ reqs = [r \in Slots |-> Idle]
  /\ started = 0
  /\ origin = [i \in Ids |-> NeverIssued]
  /\ ended = [i \in Sessions |-> NoSession]
  /\ vp \in {Body(c) : c \in BoundaryChoices}
  /\ vres = "none"
  /\ settings = DefaultSettings
  /\ pool = CreateEngine(settings)
  /\ conns = [r \in Slots |-> NoConn]

\* The framework validates the body of POST /games against BoardGameCreate
\* (BoardGameBase with nothing added) before create_game is called.
ValidateCreate ==
  /\ vres = "none"
  /\ vres' = IF Validates(BoardGameBase, vp) THEN "accepted" ELSE "422"
  /\ UNCHANGED << vp, svars, pvars >>

NextV == ValidateCreate

SpecV == InitV /\ [][NextV]_vars

\* -------------------------------------------------------- pool exhaustion
\* The pool alone, under settings small enough for the requests in flight to
\* exhaust it.  (The handlers above run under the default settings, whose
\* 15 connections MaxReqs requests never use up.)  Time is in seconds.
PoolSizes == {1, 2}
MaxOverflows == {0, 1}
PoolTimeouts == {10, 30, 60}

InitP ==
  /\ table = << >>
  /\ nextId = 1
  /\ now = 0
  /\ reqs = [r \in Slots |-> Idle]
  /\ started = 0
  /\ origin = [i \in Ids |-> NeverIssued]
  /\ ended = [i \in Sessions |-> NoSession]
  /\ vp = NoPayload
  /\ vres = "none"
  /\ settings \in [pool_size : PoolSizes, max_overflow : MaxOverflows,
                   pool_timeout : PoolTimeouts]
  /\ pool = CreateEngine(settings)
  /\ conns = [r \in Slots |-> NoConn]

CheckedOut == Cardinality({r \in Slots : conns[r].state = "held"})

\* A connection is idle in the pool, or the pool may open one more.
Available == CheckedOut < pool.opened \/ pool.opened < pool.size + pool.max_overflow

\* The pool after handing out a connection: an idle one if there is one,
\* else a new one.
Take == IF CheckedOut < pool.opened THEN pool ELSE [pool EXCEPT !.opened = @ + 1]

\* A session's first statement of a transaction asks the pool for a
\* connection: it gets one at once, or starts to wait.
Checkout(r) ==
  /\ conns[r].state = "none"
  /\ IF Available
     THEN /\ conns' = [conns EXCEPT ![r].state = "held"]
          /\ pool' = Take
     ELSE /\ conns' = [conns EXCEPT ![r] = [state |-> "waiting", waited |-> 0]]
          /\ pool' = pool
  /\ UNCHANGED << settings, svars, vvars >>

\* A waiting session gets the connection another one has returned.
Obtain(r) ==
  /\ conns[r].state = "waiting"
  /\ Available
  /\ conns' = [conns EXCEPT ![r] = [state |-> "held", waited |-> 0]]
  /\ pool' = Take
  /\ UNCHANGED << settings, svars, vvars >>

\* commit, rollback or close: the connection goes back to the pool, which
\* keeps at most pool_size connections idle and closes the rest.
Release(r) ==
  /\ conns[r].state = "held"
  /\ conns' = [conns EXCEPT ![r] = NoConn]
  /\ pool' = IF pool.opened - (CheckedOut - 1) > pool.size
             THEN [pool EXCEPT !.opened = @ - 1] ELSE pool
  /\ UNCHANGED << settings, svars, vvars >>

\* A second passes for every waiting session; none waits past the pool's
\* timeout.
Tick ==
  /\ \E r \in Slots : conns[r].state = "waiting"
  /\ \A r \in Slots : conns[r].state = "waiting" => conns[r].waited < pool.timeout
  /\ conns' = [r \in Slots |->
                 IF conns[r].state = "waiting"
                 THEN [conns[r] EXCEPT !.waited = @ + 1] ELSE conns[r]]
  /\ UNCHANGED << settings, pool, svars, vvars >>

\* The pool's timeout has run out: sqlalchemy.exc.TimeoutError, a 500.
TimedOut(r) ==
  /\ conns[r].state = "waiting"
  /\ conns[r].waited >= pool.timeout
  /\ conns' = [conns EXCEPT ![r].state = "failed"]
  /\ UNCHANGED << settings, pool, svars, vvars >>

\* The failed request is over.
GiveUp(r) ==
  /\ conns[r].state = "failed"
  /\ conns' = [conns EXCEPT ![r] = NoConn]
  /\ UNCHANGED << settings, pool, svars, vvars >>

NextP ==
  \/ \E r \in Slots : Checkout(r)
  \/ \E r \in Slots : Obtain(r)
  \/ \E r \in Slots : Release(r)
  \/ Tick
  \/ \E r \in Slots : TimedOut(r)
  \/ \E r \in Slots : GiveUp(r)

SpecP == InitP /\ [][NextP]_vars

\* ------------------------------------------------------------------ claims
Has(p, f) == f \in DOMAIN p /\ p[f] # Null
Val(p, f) == p[f][1]

\* The field ranges as the data model states them, for the fields a body
\* carries with a value.
StatedRanges(p) ==
  /\ Has(p, "name") => Len(Val(p, "name")) \in 1..200
  /\ Has(p, "min_players") => Val(p, "min_players") \in 1..100
  /\ Has(p, "max_players") => Val(p, "max_players") \in 1..100
  /\ Has(p, "min_playtime") => Val(p, "min_playtime") >= 1
  /\ Has(p, "max_playtime") => Val(p, "max_playtime") >= 1
  /\ Has(p, "year_published") => Val(p, "year_published") \in 1900..2100
  /\ Has(p, "rating") => Val(p, "rating") \in 0..100

StatedCreateOk(p) ==
  /\ Has(p, "name") /\ Has(p, "min_players") /\ Has(p, "max_players")
  /\ StatedRanges(p)

\* Steps of the request in slot r.
Starts(r, ops) == reqs[r].pc = "idle" /\ reqs'[r].op \in ops
Commits(r, op) ==
  reqs[r].op = op /\ reqs[r].pc = "commit" /\ reqs'[r].pc # "commit"
Answered(r, op) == reqs[r].op = op /\ reqs[r].pc = "close"

\* What a row built from the Create body p holds in field f.
Sent(p, f) == IF f \in DOMAIN p THEN p[f] ELSE Null

C2_AsStated ==
  [][\A r \in Slots :
       (Commits(r, "update") /\ reqs'[r].pc = "refresh" /\ HasRow(table, reqs[r].id)) =>
         \A f \in SchemaFields :
           RowOf(table', reqs[r].id)[f] =
             IF f \in DOMAIN reqs[r].payload THEN reqs[r].payload[f]
             ELSE RowOf(table, reqs[r].id)[f]]_vars

\* Beside C2, what does hold of every Update that commits: each field absent
\* from the payload keeps the value it had; each field present in the payload
\* has exactly the payload's value, unless the payload's value equals the one
\* the Update's lookup loaded and another request has committed a different
\* value since.
C2_PartialUpdate ==
  [][\A r \in Slots :
       (Commits(r, "update") /\ reqs'[r].pc = "refresh" /\ HasRow(table, reqs[r].id)) =>
         \A f \in SchemaFields :
           IF f \in DOMAIN reqs[r].payload
           THEN (\/ reqs[r].payload[f] # reqs[r].obj[f]
                 \/ reqs[r].obj[f] = RowOf(table, reqs[r].id)[f])
                => RowOf(table', reqs[r].id)[f] = reqs[r].payload[f]
           ELSE RowOf(table', reqs[r].id)[f] = RowOf(table, reqs[r].id)[f]]_vars

\* Update {max_players: 6} on the stored Catan has answered 200: max_players
\* is 6 and min_players still 3.
C2_Witness ==
  \E r \in Slots :
    /\ Answered(r, "update") /\ reqs[r].status = 200
    /\ reqs[r].payload = UpdMaxPlayers
    /\ reqs[r].obj.max_players = Some(6)
    /\ reqs[r].obj.min_players = Some(3)
    /\ reqs[r].obj.name = Some("Catan")

\* C3 as stated. Not-found consistency: on an identifier Create never
\* issued, GetOne, Update and Delete each answer 404, issue no commit and
\* leave the table as it was.
C3_AsStated ==
  [][\A r \in Slots :
       (Starts(r, {"get", "update", "delete"})
          /\ origin[reqs'[r].id].state = "never") =>
         /\ reqs'[r].status = 404
         /\ reqs'[r].commits = 0
         /\ table' = table]_vars

\* C3 as amended. On an identifier Create never issued, GetOne, Delete, and
\* Update with a payload that satisfies the Update schema each answer 404,
\* issue no commit and leave the table as it was; so does the rest of such
\* a request.  (An Update whose payload violates the schema answers 422.)
C3_NotFound ==
  [][\A r \in Slots :
       /\ (Starts(r, {"get", "update", "delete"})
             /\ origin[reqs'[r].id].state = "never"
             /\ (reqs'[r].op = "update" => StatedRanges(reqs'[r].payload))) =>
            /\ reqs'[r].status = 404
            /\ reqs'[r].pc = "close"
            /\ reqs'[r].commits = 0
            /\ table' = table
       /\ (reqs[r].status = 404 /\ reqs'[r] # reqs[r]) =>
            /\ reqs[r].commits = 0
            /\ reqs'[r] = Idle
            /\ table' = table]_vars

\* Delete on an identifier no Create has issued has answered 404 while the
\* table holds a row.
C3_Witness ==
  \E r \in Slots :
    /\ Answered(r, "delete") /\ reqs[r].status = 404
    /\ origin[reqs[r].id].state = "never"
    /\ reqs[r].commits = 0
    /\ Len(table) > 0

\* C4. Pagination consistency: when the table holds exactly N rows and no
\* write is committed between the two queries of a List, List(skip=0,
\* limit=N) returns N items and total N, and List(skip=N, limit=L) returns
\* no item, whatever L.
C4_Pagination ==
  [][\A r \in Slots :
       (reqs[r].op = "list" /\ reqs[r].pc = "count" /\ reqs'[r].pc = "close"
          /\ ~reqs[r].stale) =>
         /\ (reqs[r].skip = 0 /\ reqs[r].limit = Len(table)) =>
              /\ Len(reqs'[r].items) = Len(table)
              /\ reqs'[r].total = Len(table)
         /\ (reqs[r].skip = Len(table)) => reqs'[r].items = << >>]_vars

\* List(skip=0, limit=2) over two rows has answered two items and total 2.
C4_Witness ==
  \E r \in Slots :
    /\ Answered(r, "list") /\ reqs[r].status = 200 /\ ~reqs[r].stale
    /\ reqs[r].skip = 0 /\ reqs[r].limit = 2
    /\ Len(reqs[r].items) = 2 /\ reqs[r].total = 2
    /\ reqs[r].items[1] # reqs[r].items[2]

\* C5. Delete finality: once a Delete of an identifier has committed, every
\* GetOne and every Delete that starts on it answers 404 without a commit
\* and leaves the table as it was, and the identifier stays deleted.
C5_DeleteFinality ==
  [][/\ \A r \in Slots :
          (Starts(r, {"get", "delete"})
             /\ origin[reqs'[r].id].state = "deleted") =>
            /\ reqs'[r].status = 404
            /\ reqs'[r].pc = "close"
            /\ reqs'[r].commits = 0
            /\ table' = table
     /\ \A i \in Ids :
          origin[i].state = "deleted" =>
            origin'[i].state = "deleted" /\ ~HasRow(table', i)]_vars

\* A second Delete of the stored game has answered 404 after the first one
\* committed.
C5_Witness ==
  \E r \in Slots :
    /\ Answered(r, "delete") /\ reqs[r].status = 404
    /\ reqs[r].id = 1
    /\ origin[1].state = "deleted"
    /\ started = 2

\* C6. Validation boundaries: Create is accepted exactly when name has
\* length 1..200, min_players and max_players are each in 1..100,
\* min_playtime and max_playtime are each absent or >= 1, year_published is
\* absent or in 1900..2100 and rating is absent or in 0.0..10.0; min_players
\* 0 and rating 10.1 are refused, min_players 1 and rating 10.0 are not, and
\* min_players may exceed max_players.
C6_ValidationBoundaries ==
  vres # "none" =>
    /\ vres = "accepted" <=> StatedCreateOk(vp)
    /\ (Has(vp, "min_players") /\ Val(vp, "min_players") = 0) => vres = "422"
    /\ (Has(vp, "rating") /\ Val(vp, "rating") = 101) => vres = "422"

\* A body on the upper edges of name, min_players and rating, with
\* min_players above max_players, has been accepted.
C6_Witness ==
  /\ vres = "accepted"
  /\ Has(vp, "name") /\ Len(Val(vp, "name")) = 200
  /\ Has(vp, "min_players") /\ Val(vp, "min_players") = 100
  /\ Has(vp, "max_players") /\ Val(vp, "max_players") = 1
  /\ Has(vp, "rating") /\ Val(vp, "rating") = 100

\* C7. Fail closed on invalid input: a Create or Update whose payload
\* violates a schema constraint is answered 422 before any query, mutation
\* or commit is issued on its session, and neither it nor the rest of the
\* request changes the table or the serial.
C7_FailClosed ==
  [][\A r \in Slots :
       /\ (\/ Starts(r, {"create"}) /\ ~StatedCreateOk(reqs'[r].payload)
           \/ Starts(r, {"update"}) /\ ~StatedRanges(reqs'[r].payload)) =>
            /\ reqs'[r].status = 422
            /\ reqs'[r].pc = "close"
            /\ reqs'[r].queries = 0
            /\ reqs'[r].commits = 0
            /\ table' = table
            /\ nextId' = nextId
       /\ (reqs[r].status = 422 /\ reqs'[r] # reqs[r]) =>
            /\ reqs[r].queries = 0
            /\ reqs[r].commits = 0
            /\ reqs'[r] = Idle
            /\ table' = table
            /\ nextId' = nextId]_vars

\* Update {rating: 10.1} on the stored game has been answered 422, with no
\* query and no commit, and the stored game is as it was.
C7_Witness ==
  \E r \in Slots :
    /\ Answered(r, "update") /\ reqs[r].status = 422
    /\ reqs[r].payload = UpdBadRating
    /\ reqs[r].queries = 0 /\ reqs[r].commits = 0
    /\ table = << Stored >>

UniqueIds == \A i, j \in 1..Len(table) : table[i].id = table[j].id => i = j

\* C8. Identifier uniqueness and stability: no two rows of the table share
\* an identifier, and the commit of an Update leaves every row's identifier
\* as it was.
C8_IdentifierStable ==
  /\ []UniqueIds
  /\ [][\A r \in Slots :
          Commits(r, "update") =>
            /\ Len(table') = Len(table)
            /\ \A i \in 1..Len(table) : table'[i].id = table[i].id]_vars

\* Two games are stored and an Update whose body also carried an "id" key
\* has cleared the second one's description: it is still game 2.
C8_Witness ==
  \E r \in Slots :
    /\ Answered(r, "update") /\ reqs[r].status = 200
    /\ reqs[r].payload = UpdClear
    /\ Len(table) = 2
    /\ table[1].id = 1 /\ table[2].id = 2
    /\ reqs[r].id = 2
    /\ table[2].description = Null /\ table[2].name = Some("Azul")

TimestampOrder == \A i \in 1..Len(table) : table[i].updated_at >= table[i].created_at

\* C9. Timestamp order: every stored game has updated_at >= created_at, and
\* a game's created_at never changes once it is stored.
C9_TimestampOrder ==
  /\ []TimestampOrder
  /\ [][\A i \in 1..Len(table), j \in 1..Len(table') :
          table'[j].id = table[i].id => table'[j].created_at = table[i].created_at]_vars

\* An Update has moved updated_at of the stored game past its created_at.
C9_Witness ==
  /\ Len(table) = 1
  /\ table[1].id = 1
  /\ table[1].updated_at > table[1].created_at
  /\ origin[1].state = "touched"

\* Whether the payload of the Update in slot r names a value other than the
\* one its lookup loaded.
Modifies(r) ==
  \E f \in (DOMAIN reqs[r].payload) \cap SchemaFields :
    reqs[r].payload[f] # reqs[r].obj[f]

\* C10 as stated. Every Update that succeeds leaves updated_at later than
\* it was, also with no present field or with present fields that equal
\* the stored values.
C10_AsStated ==
  [][\A r \in Slots :
       (Commits(r, "update") /\ reqs'[r].pc = "refresh" /\ HasRow(table, reqs[r].id)) =>
         RowOf(table', reqs[r].id).updated_at > RowOf(table, reqs[r].id).updated_at]_vars

\* C10 as amended. An Update that succeeds and names, for at least one
\* field, a value other than the one it loaded sets updated_at to the clock
\* reading taken at its commit, which is never earlier than the value
\* before; an Update with no present field, or whose present fields all
\* equal the loaded values, sends no UPDATE and leaves updated_at as it was.
C10_UpdatedAt ==
  [][\A r \in Slots :
       (Commits(r, "update") /\ reqs'[r].pc = "refresh" /\ HasRow(table, reqs[r].id)) =>
         IF Modifies(r)
         THEN /\ RowOf(table', reqs[r].id).updated_at = now'
              /\ now' >= now
              /\ RowOf(table', reqs[r].id).updated_at >= RowOf(table, reqs[r].id).updated_at
         ELSE table' = table]_vars

\* An Update with an empty payload has answered 200 and updated_at of the
\* stored game is still its created_at, although the clock has moved on.
C10_Witness ==
  \E r \in Slots :
    /\ Answered(r, "update") /\ reqs[r].status = 200
    /\ reqs[r].payload = UpdNothing
    /\ reqs[r].obj.updated_at = reqs[r].obj.created_at
    /\ now > reqs[r].obj.updated_at

\* C11. Unset versus explicit null in Update: when an Update commits on a row
\* no other request has written since the Update loaded it, every field the
\* payload omits keeps its stored value, every field the payload carries as
\* an explicit null is stored as null, and the Update succeeds.
C11_UnsetVersusNull ==
  [][\A r \in Slots :
       (Commits(r, "update") /\ reqs[r].obj = RowOf(table, reqs[r].id)) =>
         /\ reqs'[r].pc = "refresh"
         /\ \A f \in SchemaFields :
              IF f \notin DOMAIN reqs[r].payload
              THEN RowOf(table', reqs[r].id)[f] = RowOf(table, reqs[r].id)[f]
              ELSE reqs[r].payload[f] = Null => RowOf(table', reqs[r].id)[f] = Null]_vars

Busy(r) == reqs[r].pc # "idle"

\* Every session opened so far is the open session of exactly one request in
\* flight, or was left closed, with no connection, by the request it served.
SessionsAccounted ==
  /\ \A r \in Slots :
       IF Busy(r)
       THEN reqs[r].session.id \in 1..started /\ reqs[r].session.state = "open"
       ELSE reqs[r].session = NoSession
  /\ \A r, q \in Slots :
       (Busy(r) /\ Busy(q) /\ reqs[r].session.id = reqs[q].session.id) => r = q
  /\ \A i \in Sessions :
       IF \E r \in Slots : Busy(r) /\ reqs[r].session.id = i
       THEN ended[i] = NoSession
       ELSE IF i <= started
       THEN ended[i].id = i /\ ended[i].state = "closed" /\ ~ended[i].conn
       ELSE ended[i] = NoSession

\* C12. Session release: every request opens exactly one session, of its
\* own, and keeps it while it runs; however the request ends (a response, a
\* 404, a 422, a failed commit or refresh) that session is left closed and
\* holds no connection; and the second close() of the session, on leaving
\* the `async with`, changes nothing the first one left.
C12_SessionRelease ==
  /\ []SessionsAccounted
  /\ [][\A r \in Slots :
          /\ (Busy(r) /\ Busy(r)') => reqs'[r].session.id = reqs[r].session.id
          /\ (~Busy(r) /\ Busy(r)') =>
               /\ reqs'[r].session.id = started'
               /\ ended[started'] = NoSession
               /\ \A q \in Slots : Busy(q) => reqs[q].session.id # started'
          /\ (Busy(r) /\ ~Busy(r)') =>
               /\ reqs[r].status \in {200, 201, 204, 404, 422, 500}
               /\ ended'[reqs[r].session.id].closes = 2
               /\ [ended'[reqs[r].session.id] EXCEPT !.closes = 1]
                    = SessionClose(reqs[r].session)]_vars

\* The first request's session was closed twice and holds no connection,
\* while a second request, whose commit has failed, still holds a connection
\* on a session of its own.
C12_Witness ==
  /\ ended[1].state = "closed" /\ ended[1].closes = 2 /\ ~ended[1].conn
  /\ \E r \in Slots :
       /\ reqs[r].pc = "close" /\ reqs[r].status = 500
       /\ reqs[r].session = [id |-> 2, state |-> "open", conn |-> TRUE, closes |-> 0]

\* C13. Pool bound and timeout: never more than pool_size + max_overflow
\* connections are checked out; a session that asks for a connection while
\* that many are checked out waits; and a session that has waited the
\* pool_timeout of the settings without getting one fails, and fails no
\* sooner.
C13_PoolBoundAndTimeout ==
  /\ [](CheckedOut <= settings.pool_size + settings.max_overflow)
  /\ [][\A r \in Slots :
          (conns[r].state = "none" /\ conns'[r].state # "none"
             /\ CheckedOut = settings.pool_size + settings.max_overflow) =>
            conns'[r].state = "waiting"]_vars
  /\ [](\A r \in Slots :
          /\ conns[r].state = "waiting" => conns[r].waited <= settings.pool_timeout
          /\ conns[r].state = "failed" => conns[r].waited = settings.pool_timeout)

\* C14. List total: the total of every List response is the number of rows
\* the table holds when the count query runs, whatever skip and limit are
\* and however many items the page holds, and it is 200 with the page the
\* first query returned.
C14_ListTotal ==
  [][\A r \in Slots :
       (reqs[r].op = "list" /\ reqs[r].pc = "count" /\ reqs'[r].pc # "count") =>
         /\ reqs'[r].total = Len(table)
         /\ reqs'[r].status = 200
         /\ reqs'[r].items = reqs[r].items
         /\ reqs'[r].pc = "close"]_vars

\* List(skip=1, limit=1) over two rows has answered one item and total 2.
C14_Witness ==
  \E r \in Slots :
    /\ Answered(r, "list") /\ reqs[r].status = 200
    /\ reqs[r].skip = 1 /\ reqs[r].limit = 1
    /\ Len(reqs[r].items) = 1 /\ reqs[r].total = 2 /\ Len(table) = 2

\* C15. One commit per write: a Create answered 201, an Update answered 200
\* and a Delete answered 204 have each issued exactly one commit on their
\* session; a GetOne, a List and every request answered 404 have issued
\* none; and no step of a request issues more than one.
C15_OneCommitPerWrite ==
  /\ [](\A r \in Slots :
          reqs[r].pc = "close" =>
            /\ (reqs[r].op \in {"create", "update", "delete"}
                  /\ reqs[r].status \in {200, 201, 204}) => reqs[r].commits = 1
            /\ reqs[r].op \in {"get", "list"} => reqs[r].commits = 0
            /\ reqs[r].status = 404 => reqs[r].commits = 0)
  /\ [][\A r \in Slots :
          (Busy(r) /\ Busy(r)') =>
            /\ reqs'[r].commits \in {reqs[r].commits, reqs[r].commits + 1}
            /\ reqs'[r].commits # reqs[r].commits => reqs[r].pc = "commit"]_vars

\* An Update that changed the stored game has answered 200 after one commit
\* while a Delete on an identifier that was never issued has answered 404
\* after none.
C15_Witness ==
  \E r, q \in Slots :
    /\ Answered(r, "update") /\ reqs[r].status = 200 /\ reqs[r].commits = 1
    /\ reqs[r].payload = UpdPlayers /\ origin[reqs[r].id].state = "touched"
    /\ Answered(q, "delete") /\ reqs[q].status = 404 /\ reqs[q].commits = 0

\* C16 as stated. Update step order: Update looks the identifier up before
\* it validates the payload, so an Update on an absent identifier answers
\* 404 whether or not the payload satisfies the Update schema.
C16_AsStated ==
  [][\A r \in Slots :
       (Starts(r, {"update"}) /\ ~HasRow(table, reqs'[r].id)) =>
         reqs'[r].status = 404 /\ reqs'[r].queries = 1]_vars

\* C16 as amended. Update validates the payload before it looks the
\* identifier up: a payload that violates the Update schema is answered 422
\* with no query, whether or not the identifier is present; a payload that
\* satisfies it is answered 404 after the lookup when the identifier is
\* absent, and goes on to its commit when it is present.
C16_UpdateOrder ==
  [][\A r \in Slots :
       Starts(r, {"update"}) =>
         IF ~StatedRanges(reqs'[r].payload)
         THEN reqs'[r].status = 422 /\ reqs'[r].queries = 0 /\ reqs'[r].pc = "close"
         ELSE IF ~HasRow(table, reqs'[r].id)
         THEN reqs'[r].status = 404 /\ reqs'[r].queries = 1 /\ reqs'[r].pc = "close"
         ELSE reqs'[r].status = 0 /\ reqs'[r].queries = 1 /\ reqs'[r].pc = "commit"]_vars

\* Update {rating: 10.1} on the identifier of a deleted game has been
\* answered 422 without a query.
C16_Witness ==
  \E r \in Slots :
    /\ Answered(r, "update") /\ reqs[r].status = 422
    /\ reqs[r].payload = UpdBadRating /\ reqs[r].queries = 0
    /\ origin[reqs[r].id].state = "deleted"
    /\ ~HasRow(table, reqs[r].id)

\* C17. Last-commit-wins: when two Updates of the same game have both
\* looked it up before either committed, and the second now commits after
\* the first (the game is still stored and the payload sets no required
\* column to null), the second is not rejected and every field that both
\* payloads set holds the second one's value.
C17_LastCommitWins ==
  [][\A r, q \in Slots :
       (/\ r # q
        /\ Commits(r, "update")
        /\ reqs[q].op = "update" /\ reqs[q].pc = "refresh"
        /\ reqs[q].id = reqs[r].id /\ reqs[q].obj = reqs[r].obj
        /\ HasRow(table, reqs[r].id)
        /\ DbAccepts(ModelDumpExcludeUnset(reqs[r].payload))) =>
         /\ reqs'[r].pc = "refresh"
         /\ \A f \in (DOMAIN reqs[r].payload) \cap (DOMAIN reqs[q].payload) \cap SchemaFields :
              RowOf(table', reqs[r].id)[f] = reqs[r].payload[f]]_vars

\* Whether a stored row is inside the declared ranges.
RowValid(row) ==
  /\ row.name # Null /\ Len(row.name[1]) \in 1..200
  /\ row.min_players # Null /\ row.min_players[1] \in 1..100
  /\ row.max_players # Null /\ row.max_players[1] \in 1..100
  /\ row.min_playtime # Null => row.min_playtime[1] >= 1
  /\ row.max_playtime # Null => row.max_playtime[1] >= 1
  /\ row.year_published # Null => row.year_published[1] \in 1900..2100
  /\ row.rating # Null => row.rating[1] \in 0..100

\* C18. Persisted rows stay valid: whatever Create, Update and Delete
\* requests have run, succeeded or failed, every stored game has a name of
\* length 1..200, min_players and max_players in 1..100, and min_playtime,
\* max_playtime, year_published and rating each null or inside its range.
C18_RowsValid == \A i \in 1..Len(table) : RowValid(table[i])

\* Update {name: null} on the stored game has failed at its commit, and a
\* Create whose min_players is 0 was refused: the table holds the game as
\* it was.
C18_Witness ==
  \E r, q \in Slots :
    /\ Answered(r, "update") /\ reqs[r].status = 500 /\ reqs[r].payload = UpdNoName
    /\ Answered(q, "create") /\ reqs[q].status = 422 /\ reqs[q].payload = NoPlayers
    /\ table = << Stored >>

\* C19. No resurrection: an identifier whose Delete has committed is in no
\* row of any later state and lies below the serial; an Update that had
\* looked the game up before the Delete committed leaves the table as it is
\* when it commits and never answers 200; and a Create is only ever given an
\* identifier that was never issued.
C19_NoResurrection ==
  /\ [](\A i \in Ids : origin[i].state = "deleted" => ~HasRow(table, i) /\ i < nextId)
  /\ [][\A r \in Slots :
          /\ (Commits(r, "update") /\ origin[reqs[r].id].state = "deleted") =>
               /\ table' = table
               /\ reqs'[r].status = 500 \/ reqs'[r].pc = "refresh"
          /\ (reqs[r].op = "update" /\ reqs[r].pc = "refresh" /\ reqs'[r].pc = "close"
                /\ origin[reqs[r].id].state = "deleted") =>
               reqs'[r].status = 500
          /\ (Starts(r, {"create"}) /\ reqs'[r].pc = "refresh") =>
               /\ origin[reqs'[r].id].state = "never"
               /\ \A i \in Ids : origin[i].state = "deleted" => reqs'[r].id > i]_vars

\* An Update {max_players: 6} that had loaded the stored game before a
\* Delete of it committed has failed at its own commit: the table is empty.
C19_Witness ==
  \E r \in Slots :
    /\ Answered(r, "update") /\ reqs[r].status = 500
    /\ reqs[r].payload = UpdMaxPlayers
    /\ reqs[r].obj = Stored /\ reqs[r].commits = 1
    /\ origin[1].state = "deleted"
    /\ table = << >>

====
